---------------------------- MODULE Spec2Model ----------------------------
(***************************************************************************)
(* A model of qsquaremap (src/src/qsquaremap/qsquaremap.py): the QSquareMap *)
(* widget's interaction state and event handlers, the recursive treemap     *)
(* layout (DrawBox / LayoutChildren / split_box / split_by_value), the      *)
(* HotMapNavigator and the DefaultAdapter.                                  *)
(*                                                                          *)
(* Numbers are exact rationals <<n, d>> (d > 0, lowest terms): the layout   *)
(* is checked in exact arithmetic, not in IEEE doubles.  A Python None for  *)
(* a node is the id None; an optional rectangle is a sequence of length 0   *)
(* (None) or 1.                                                             *)
(***************************************************************************)
EXTENDS Integers, Sequences, FiniteSets, TLC

VARIABLES
    nodes,             \* the heap of Node objects: id -> [value, children]
    model,             \* self.model: the root node, or None
    adapter,           \* self.adapter: which adapter class is installed
    padding,           \* self.padding
    margin,            \* self.margin
    square_style,      \* self.square_style
    max_depth,         \* self.max_depth: <<>> for None (the default), <<d>> for d
    activeNode,        \* self._activeNode
    selectedNode,      \* self._selectedNode
    highlightedNode,   \* self._highlightedNode
    hot_map,           \* self.hot_map
    signals,           \* the notifications the last handler emitted, in order
    raised,            \* the exception the last handler ended with ("" if none)
    call,              \* the last call made: [op, ...its arguments]
    ret                \* what the last call of a pure function returned

vars == <<nodes, model, adapter, padding, margin, square_style, max_depth,
          activeNode, selectedNode, highlightedNode, hot_map, signals,
          raised, call, ret>>

widgetConfig == <<nodes, adapter, padding, margin, square_style, max_depth>>

\* Python's None, as a node reference.
None == 0

-----------------------------------------------------------------------------
(* Exact arithmetic: the numbers of the layout.                             *)

Abs(i) == IF i < 0 THEN -i ELSE i

RECURSIVE GCD(_, _)
GCD(a, b) == IF b = 0 THEN a ELSE GCD(b, a % b)

\* the rational n/d in lowest terms (d # 0)
Q(n, d) ==
    LET s == IF d < 0 THEN -1 ELSE 1
        g == GCD(Abs(n), Abs(d))
    IN  <<(s * n) \div g, (s * d) \div g>>

I(n) == <<n, 1>>
QAdd(a, b) == Q(a[1] * b[2] + b[1] * a[2], a[2] * b[2])
QSub(a, b) == Q(a[1] * b[2] - b[1] * a[2], a[2] * b[2])
QMul(a, b) == Q(a[1] * b[1], a[2] * b[2])
QDiv(a, b) == Q(a[1] * b[2], a[2] * b[1])
QNeg(a) == <<-a[1], a[2]>>
QLt(a, b) == a[1] * b[2] < b[1] * a[2]
QLe(a, b) == a[1] * b[2] <= b[1] * a[2]
\* Python truthiness of a number: non-zero
Truthy(a) == a[1] # 0

-----------------------------------------------------------------------------
(* QRectF: [x, y, w, h], and the methods the program calls on it.           *)

Rect(x, y, w, h) == [x |-> x, y |-> y, w |-> w, h |-> h]

\* QRectF.adjusted(dx1, dy1, dx2, dy2): the corners moved by the offsets
adjusted(r, dx1, dy1, dx2, dy2) ==
    Rect(QAdd(r.x, dx1), QAdd(r.y, dy1),
         QSub(QAdd(r.w, dx2), dx1), QSub(QAdd(r.h, dy2), dy1))

\* QRectF.contains(QPointF): edges included; a null rectangle holds nothing
contains(r, p) ==
    LET l == IF QLt(r.w, I(0)) THEN QAdd(r.x, r.w) ELSE r.x
        rr == IF QLt(r.w, I(0)) THEN r.x ELSE QAdd(r.x, r.w)
        t == IF QLt(r.h, I(0)) THEN QAdd(r.y, r.h) ELSE r.y
        b == IF QLt(r.h, I(0)) THEN r.y ELSE QAdd(r.y, r.h)
    IN  /\ l # rr
        /\ t # b
        /\ QLe(l, p[1]) /\ QLe(p[1], rr)
        /\ QLe(t, p[2]) /\ QLe(p[2], b)

-----------------------------------------------------------------------------
(* split_box and split_by_value.                                            *)

\* split_box with the tail left at the rectangle's origin
split_box_tailUnmoved(fraction, rect) ==
    LET w == rect.w
        h == rect.h
    IN  IF QLe(h, w)
        THEN LET head_w == QMul(w, fraction)
             IN  IF Truthy(head_w)
                 THEN [head |-> <<[rect EXCEPT !.w = head_w]>>,
                       tail |-> <<[rect EXCEPT !.w = QSub(w, head_w)]>>]
                 ELSE [head |-> <<>>, tail |-> <<>>]
        ELSE LET head_h == QMul(h, fraction)
             IN  IF Truthy(head_h)
                 THEN [head |-> <<[rect EXCEPT !.h = head_h]>>,
                       tail |-> <<[rect EXCEPT !.h = QSub(h, head_h)]>>]
                 ELSE [head |-> <<>>, tail |-> <<>>]

\* split_box with a tie between width and height going to the height
split_box_tieToHeight(fraction, rect) ==
    LET w == rect.w
        h == rect.h
    IN  IF QLt(h, w)
        THEN LET head_w == QMul(w, fraction)
             IN  IF Truthy(head_w)
                 THEN [head |-> <<adjusted(rect, I(0), I(0), QNeg(QSub(w, head_w)), I(0))>>,
                       tail |-> <<adjusted(rect, head_w, I(0), I(0), I(0))>>]
                 ELSE [head |-> <<>>, tail |-> <<>>]
        ELSE LET head_h == QMul(h, fraction)
             IN  IF Truthy(head_h)
                 THEN [head |-> <<adjusted(rect, I(0), I(0), I(0), QNeg(QSub(h, head_h)))>>,
                       tail |-> <<adjusted(rect, I(0), head_h, I(0), I(0))>>]
                 ELSE [head |-> <<>>, tail |-> <<>>]

\* "Return set of two boxes where first is the fraction given"
split_box(fraction, rect) ==
    LET w == rect.w
        h == rect.h
    IN  IF QLe(h, w)
        THEN LET head_w == QMul(w, fraction)
             IN  IF Truthy(head_w)
                 THEN [head |-> <<adjusted(rect, I(0), I(0), QNeg(QSub(w, head_w)), I(0))>>,
                       tail |-> <<adjusted(rect, head_w, I(0), I(0), I(0))>>]
                 ELSE [head |-> <<>>, tail |-> <<>>]
        ELSE LET head_h == QMul(h, fraction)
             IN  IF Truthy(head_h)
                 THEN [head |-> <<adjusted(rect, I(0), I(0), I(0), QNeg(QSub(h, head_h)))>>,
                       tail |-> <<adjusted(rect, I(0), head_h, I(0), I(0))>>]
                 ELSE [head |-> <<>>, tail |-> <<>>]

coord_bigger_than_padding(tail_coord, pad) ==
    /\ QLt(QMul(pad, I(2)), tail_coord.w)
    /\ QLt(QMul(pad, I(2)), tail_coord.h)

\* Python's s[d:] and s[:d] for d <= 0 (a negative index counts from the end)
SliceFrom(s, d) ==
    LET start == IF d < 0 THEN (IF Len(s) + d < 0 THEN 0 ELSE Len(s) + d) ELSE d
    IN  SubSeq(s, start + 1, Len(s))
SliceTo(s, d) ==
    LET stop == IF d < 0 THEN (IF Len(s) + d < 0 THEN 0 ELSE Len(s) + d) ELSE d
    IN  SubSeq(s, 1, stop)

\* the loop of split_by_value going on while head_sum <= total / headdivisor
RECURSIVE SplitLoop_orEqual(_, _, _, _, _)
SplitLoop_orEqual(total, nds, k, head_sum, divider) ==
    IF k = 0 THEN [head_sum |-> head_sum, divider |-> divider]
    ELSE IF QLe(head_sum, QDiv(total, I(2)))
         THEN SplitLoop_orEqual(total, nds, k - 1, QAdd(head_sum, nds[k][1]), divider - 1)
         ELSE [head_sum |-> head_sum, divider |-> divider]

\* the loop of split_by_value taking its first node before it tests head_sum
RECURSIVE SplitLoop_bodyFirst(_, _, _, _, _)
SplitLoop_bodyFirst(total, nds, k, head_sum, divider) ==
    IF k = 0 THEN [head_sum |-> head_sum, divider |-> divider]
    ELSE IF divider = 0 \/ QLt(head_sum, QDiv(total, I(2)))
         THEN SplitLoop_bodyFirst(total, nds, k - 1, QAdd(head_sum, nds[k][1]), divider - 1)
         ELSE [head_sum |-> head_sum, divider |-> divider]

\* the loop of split_by_value over nodes[::-1]: k nodes are still to visit
RECURSIVE SplitLoop(_, _, _, _, _)
SplitLoop(total, nds, k, head_sum, divider) ==
    IF k = 0 THEN [head_sum |-> head_sum, divider |-> divider]
    ELSE IF QLt(head_sum, QDiv(total, I(2)))
         THEN SplitLoop(total, nds, k - 1, QAdd(head_sum, nds[k][1]), divider - 1)
         ELSE [head_sum |-> head_sum, divider |-> divider]

\* "Produce, (sum,head),(sum,tail) for nodes to attempt binary partition"
split_by_value(total, nds) ==
    LET l == SplitLoop(total, nds, Len(nds), I(0), 0)
    IN  [head_sum |-> l.head_sum, head |-> SliceFrom(nds, l.divider),
         tail_sum |-> QSub(total, l.head_sum), tail |-> SliceTo(nds, l.divider)]

-----------------------------------------------------------------------------
(* Node and DefaultAdapter.  adapter = "DefaultAdapter" is the class as      *)
(* written; adapter = "OverallAdapter" is a subclass that overrides          *)
(* overall(node) to return the node's own value.                             *)

children(node) == nodes[node].children

value(node, parent) == I(nodes[node].value)

RECURSIVE SumValues(_, _)
SumValues(chs, node) ==
    IF chs = <<>> THEN I(0)
    ELSE QAdd(value(Head(chs), node), SumValues(Tail(chs), node))

children_sum(chs, node) == SumValues(chs, node)

overall(node) ==
    IF adapter = "DefaultAdapter"
    THEN SumValues(children(node), node)
    ELSE value(node, None)

\* "Calculate empty space as a fraction of total space"
empty(node) ==
    LET ov == overall(node)
    IN  IF Truthy(ov)
        THEN QDiv(QSub(ov, children_sum(children(node), node)), ov)
        ELSE I(0)

-----------------------------------------------------------------------------
(* The layout: DrawBox and LayoutChildren.  Each returns the hot-map list it *)
(* was given with the entries it appended, and the exception it ended with.  *)

\* the (value, node) pairs left in the children's order
SortByValue_unsorted(pairs) == pairs

\* list.sort(key=itemgetter(0)): a stable ascending sort of (value, node) pairs
RECURSIVE InsertSorted(_, _)
InsertSorted(sorted, pair) ==
    IF sorted = <<>> THEN <<pair>>
    ELSE IF QLt(pair[1], sorted[Len(sorted)][1])
         THEN Append(InsertSorted(SubSeq(sorted, 1, Len(sorted) - 1), pair),
                     sorted[Len(sorted)])
         ELSE Append(sorted, pair)

RECURSIVE SortByValue(_)
SortByValue(pairs) ==
    IF pairs = <<>> THEN <<>>
    ELSE InsertSorted(SortByValue(SubSeq(pairs, 1, Len(pairs) - 1)), pairs[Len(pairs)])

Entry(rect, node, chm) == [rect |-> rect, node |-> node, children |-> chm]

Result(hm, exc) == [hot_map |-> hm, raised |-> exc]

RECURSIVE DrawBox(_, _, _, _)
RECURSIVE LayoutChildren(_, _, _, _, _, _)

\* "self.max_depth and ...": neither None nor 0
MaxDepthSet == max_depth # <<>> /\ max_depth[1] # 0

\* "Draw a model-node's box and all children nodes"
DrawBox(node, rect, hm, depth) ==
    IF MaxDepthSet /\ depth > max_depth[1]
    THEN Result(hm, "")
    ELSE
    LET pad == I(padding)
        rect1 == adjusted(rect, pad, pad, QNeg(pad), QNeg(pad))
        emp == empty(node)
        atMax == MaxDepthSet /\ depth = max_depth[1]
    IN  IF ~atMax /\ Truthy(emp)
        THEN \* rect.setHeiht(...): QRectF has no such method
             Result(Append(hm, Entry(rect, node, <<>>)), "AttributeError")
        ELSE IF QLt(QMul(pad, I(2)), rect1.w) /\ QLt(QMul(pad, I(2)), rect1.h)
                /\ children(node) # <<>>
             THEN LET sub == LayoutChildren(children(node), node, rect1, <<>>,
                                            depth + 1, <<>>)
                  IN  Result(Append(hm, Entry(rect, node, sub.hot_map)), sub.raised)
             ELSE Result(Append(hm, Entry(rect, node, <<>>)), "")

\* "Layout the set of children in the given rectangle"; node_sum is <<>> for
\* None, and then chs is a list of nodes; otherwise chs is the sorted list
\* of (value, node) pairs.
LayoutChildren(chs, parent, rect, hm, depth, node_sum) ==
    LET nds == IF node_sum = <<>>
               THEN SortByValue([i \in 1..Len(chs) |-> <<value(chs[i], parent), chs[i]>>])
               ELSE chs
        total == IF node_sum = <<>> THEN children_sum(chs, parent) ELSE node_sum[1]
        thresh == I(padding + margin)
        sbv == split_by_value(total, nds)
        linear ==
            LET firstSize == nds[Len(nds)][1]
                firstNode == nds[Len(nds)][2]
                fraction == QDiv(firstSize, total)
                sb == split_box(fraction, rect)
            IN  IF sb.head = <<>>
                THEN Result(hm, "")  \* no other node will show up as non-0 either
                ELSE LET d == DrawBox(firstNode, sb.head[1], hm, depth)
                     IN  IF d.raised # "" THEN d
                         ELSE IF /\ Len(nds) > 1
                                 /\ sb.tail # <<>>
                                 /\ coord_bigger_than_padding(sb.tail[1], thresh)
                              THEN LayoutChildren(SubSeq(nds, 1, Len(nds) - 1), parent,
                                                  sb.tail[1], d.hot_map, depth,
                                                  <<QSub(total, firstSize)>>)
                              ELSE d
        square ==
            LET sb == split_box(QDiv(sbv.head_sum, total), rect)
                h == IF sb.head # <<>>
                     THEN LayoutChildren(sbv.head, parent, sb.head[1], hm, depth,
                                         <<sbv.head_sum>>)
                     ELSE Result(hm, "")
            IN  IF h.raised # "" THEN h
                ELSE IF sb.tail # <<>> /\ coord_bigger_than_padding(sb.tail[1], thresh)
                     THEN LayoutChildren(sbv.tail, parent, sb.tail[1], h.hot_map, depth,
                                         <<sbv.tail_sum>>)
                     ELSE h
    IN  IF ~Truthy(total) THEN Result(hm, "")
        ELSE IF square_style /\ Len(nds) > 5 /\ sbv.head # <<>> /\ sbv.tail # <<>>
             THEN square
             ELSE linear

-----------------------------------------------------------------------------
(* HotMapNavigator.  findNode returns <<>> for None, or one record          *)
(* [parent, list, index] (index counted from 1).                            *)

\* a findNode that hands its own parent down to the search of the children
RECURSIVE findNodeFrom_sameParent(_, _, _, _)
findNodeFrom_sameParent(hm, i, targetNode, parentNode) ==
    IF i > Len(hm) THEN <<>>
    ELSE IF hm[i].node = targetNode
         THEN <<[parent |-> parentNode, list |-> hm, index |-> i]>>
         ELSE LET result == findNodeFrom_sameParent(hm[i].children, 1, targetNode, parentNode)
              IN  IF result # <<>> THEN result
                  ELSE findNodeFrom_sameParent(hm, i + 1, targetNode, parentNode)

RECURSIVE findNodeFrom(_, _, _, _)
findNode(hm, targetNode, parentNode) == findNodeFrom(hm, 1, targetNode, parentNode)

\* the loop of findNode, from entry i on
findNodeFrom(hm, i, targetNode, parentNode) ==
    IF i > Len(hm) THEN <<>>
    ELSE IF hm[i].node = targetNode
         THEN <<[parent |-> parentNode, list |-> hm, index |-> i]>>
         ELSE LET result == findNodeFrom(hm[i].children, 1, targetNode, hm[i].node)
              IN  IF result # <<>> THEN result
                  ELSE findNodeFrom(hm, i + 1, targetNode, parentNode)

\* a findNodeAtPosition that goes on to the later siblings when the children
\* of the entry hit do not hold the position
RECURSIVE findNodeAtPositionFrom_backtracking(_, _, _, _)
findNodeAtPositionFrom_backtracking(hm, i, position, parent) ==
    IF i > Len(hm) THEN parent
    ELSE IF contains(hm[i].rect, position)
         THEN LET below == findNodeAtPositionFrom_backtracking(hm[i].children, 1,
                                                               position, None)
                  later == findNodeAtPositionFrom_backtracking(hm, i + 1, position, None)
              IN  IF below # None THEN below
                  ELSE IF later # None THEN later
                  ELSE hm[i].node
         ELSE findNodeAtPositionFrom_backtracking(hm, i + 1, position, parent)

RECURSIVE findNodeAtPositionFrom(_, _, _, _)
findNodeAtPosition(hm, position, parent) == findNodeAtPositionFrom(hm, 1, position, parent)

\* the loop of findNodeAtPosition, from entry i on
findNodeAtPositionFrom(hm, i, position, parent) ==
    IF i > Len(hm) THEN parent
    ELSE IF contains(hm[i].rect, position)
         THEN findNodeAtPositionFrom(hm[i].children, 1, position, hm[i].node)
         ELSE findNodeAtPositionFrom(hm, i + 1, position, parent)

firstChild(hm, index) ==
    IF hm[index].children # <<>>
    THEN hm[index].children[1].node
    ELSE hm[index].node

Min(a, b) == IF a < b THEN a ELSE b
Max(a, b) == IF a > b THEN a ELSE b

\* a next sibling that wraps around to the first
nextChild_wrapping(hm, index) == hm[(index % Len(hm)) + 1].node

nextChild(hm, index) == hm[Min(index + 1, Len(hm))].node

previousChild(hm, index) == hm[Max(1, index - 1)].node

firstNode(hm) == hm[1].node

RECURSIVE lastNode(_)
lastNode(hm) ==
    IF hm[Len(hm)].children # <<>>
    THEN lastNode(hm[Len(hm)].children)
    ELSE hm[Len(hm)].node

-----------------------------------------------------------------------------
(* The widget: QSquareMap's interaction state and its handlers.             *)

\* Two trees of Node objects in one heap: a tree rooted at 1 and a single
\* node 5.  Node 2 claims more value (40) than its child holds (30).
Heap ==
    (1 :> [value |-> 100, children |-> <<2, 3>>]) @@
    (2 :> [value |-> 40, children |-> <<4>>]) @@
    (3 :> [value |-> 60, children |-> <<>>]) @@
    (4 :> [value |-> 30, children |-> <<>>]) @@
    (5 :> [value |-> 7, children |-> <<>>])

Roots == {1, 5}
NodeIds == DOMAIN Heap
Adapters == {"DefaultAdapter"}

\* the widget rectangles a paint event may carry, and the pointer positions
PaintRects == {Rect(I(0), I(0), I(100), I(100)), Rect(I(0), I(0), I(20), I(20))}
Positions == {<<I(1), I(1)>>, <<I(60), I(60)>>, <<I(80), I(60)>>, <<I(120), I(60)>>}
Keys == {"Home", "End", "Down", "Up", "Right", "Left", "Return"}

\* __init__: padding and margin as constructed, no interaction state
InitWidget ==
    /\ nodes = Heap
    /\ model \in {None} \cup Roots
    /\ adapter = "DefaultAdapter"
    /\ padding = 3
    /\ margin = 5
    /\ square_style = FALSE
    /\ max_depth = <<>>
    /\ activeNode = None
    /\ selectedNode = None
    /\ highlightedNode = None
    /\ hot_map = <<>>
    /\ signals = <<>>
    /\ raised = ""
    /\ call = [op |-> "__init__"]
    /\ ret = <<>>

Signal(name, node) == [signal |-> name, node |-> node]

\* a setter that notifies without comparing with the slot's value
Emit_withoutComparing(name, node, old, propagate) ==
    IF node # None /\ propagate THEN <<Signal(name, node)>> ELSE <<>>

\* the notification a setter emits: node is new for the slot
Emit(name, node, old, propagate) ==
    IF node # old /\ node # None /\ propagate THEN <<Signal(name, node)>> ELSE <<>>

\* setActiveNode(node, point, propagate)
setActiveNode(node, propagate) ==
    /\ activeNode' = node
    /\ signals' = Emit("activateNode", node, activeNode, propagate)
    /\ UNCHANGED <<selectedNode, highlightedNode>>

\* setSelectedNode(node, point, propagate)
setSelectedNode(node, propagate) ==
    /\ selectedNode' = node
    /\ signals' = Emit("selectNode", node, selectedNode, propagate)
    /\ UNCHANGED <<activeNode, highlightedNode>>

\* setHighlightedNode(node, point, propagate)
setHighlightedNode(node, propagate) ==
    /\ highlightedNode' = node
    /\ signals' = Emit("highlightNode", node, highlightedNode, propagate)
    /\ UNCHANGED <<activeNode, selectedNode>>

NoSlotChange ==
    /\ signals' = <<>>
    /\ UNCHANGED <<activeNode, selectedNode, highlightedNode>>

CallSetActiveNode(node) ==
    /\ setActiveNode(node, TRUE)
    /\ call' = [op |-> "setActiveNode", node |-> node]
    /\ raised' = ""
    /\ UNCHANGED <<widgetConfig, model, hot_map, ret>>

CallSetSelectedNode(node) ==
    /\ setSelectedNode(node, TRUE)
    /\ call' = [op |-> "setSelectedNode", node |-> node]
    /\ raised' = ""
    /\ UNCHANGED <<widgetConfig, model, hot_map, ret>>

CallSetHighlightedNode(node) ==
    /\ setHighlightedNode(node, TRUE)
    /\ call' = [op |-> "setHighlightedNode", node |-> node]
    /\ raised' = ""
    /\ UNCHANGED <<widgetConfig, model, hot_map, ret>>

mouseMoveEvent(position) ==
    /\ setHighlightedNode(findNodeAtPosition(hot_map, position, None), TRUE)
    /\ call' = [op |-> "mouseMoveEvent"]
    /\ raised' = ""
    /\ UNCHANGED <<widgetConfig, model, hot_map, ret>>

mouseReleaseEvent(position) ==
    /\ setSelectedNode(findNodeAtPosition(hot_map, position, None), TRUE)
    /\ call' = [op |-> "mouseReleaseEvent"]
    /\ raised' = ""
    /\ UNCHANGED <<widgetConfig, model, hot_map, ret>>

mouseDoubleClickEvent(position) ==
    /\ LET node == findNodeAtPosition(hot_map, position, None)
       IN  IF node # None THEN setActiveNode(node, TRUE) ELSE NoSlotChange
    /\ call' = [op |-> "mouseDoubleClickEvent"]
    /\ raised' = ""
    /\ UNCHANGED <<widgetConfig, model, hot_map, ret>>

\* line 142 compares event.key, the bound method, with the key code: the
\* comparison is false for every key
EndKeyMatches(key) == FALSE

\* what keyReleaseEvent ends with: setActiveNode has no parameter "map", and
\* the call is in the try statement's else clause
keyReleaseRaises(key) ==
    IF /\ selectedNode # None /\ hot_map # <<>>
       /\ key # "Home" /\ ~EndKeyMatches(key)
       /\ findNode(hot_map, selectedNode, None) # <<>>
       /\ key = "Return"
    THEN "TypeError" ELSE ""

keyReleaseEvent(key) ==
    /\ IF selectedNode = None \/ hot_map = <<>> THEN NoSlotChange
       ELSE IF key = "Home" THEN setSelectedNode(firstNode(hot_map), TRUE)
       ELSE IF EndKeyMatches(key) THEN setSelectedNode(lastNode(hot_map), TRUE)
       ELSE LET found == findNode(hot_map, selectedNode, None)
            IN  IF found = <<>> THEN NoSlotChange
                ELSE IF key = "Down"
                     THEN setSelectedNode(nextChild(found[1].list, found[1].index), TRUE)
                ELSE IF key = "Up"
                     THEN setSelectedNode(previousChild(found[1].list, found[1].index), TRUE)
                ELSE IF key = "Right"
                     THEN setSelectedNode(firstChild(found[1].list, found[1].index), TRUE)
                ELSE IF key = "Left" /\ found[1].parent # None
                     THEN setSelectedNode(found[1].parent, TRUE)
                ELSE NoSlotChange
    /\ call' = [op |-> "keyReleaseEvent", key |-> key]
    /\ raised' = keyReleaseRaises(key)
    /\ UNCHANGED <<widgetConfig, model, hot_map, ret>>

\* a SetModel that clears the selection
SetModel_clearingSelection(newModel, newAdapter) ==
    /\ model' = newModel
    /\ adapter' = IF newAdapter # "" THEN newAdapter ELSE adapter
    /\ selectedNode' = None
    /\ signals' = <<>>
    /\ UNCHANGED <<activeNode, highlightedNode>>
    /\ call' = [op |-> "SetModel"]
    /\ raised' = ""
    /\ UNCHANGED <<nodes, padding, margin, square_style, max_depth, hot_map, ret>>

\* "Set our model object (root of the tree)"; newAdapter is "" for None
SetModel(newModel, newAdapter) ==
    /\ model' = newModel
    /\ adapter' = IF newAdapter # "" THEN newAdapter ELSE adapter
    /\ NoSlotChange
    /\ call' = [op |-> "SetModel"]
    /\ raised' = ""
    /\ UNCHANGED <<nodes, padding, margin, square_style, max_depth, hot_map, ret>>

\* "Draw the tree map on the device context."
paintEvent(rect) ==
    /\ LET d == IF model # None THEN DrawBox(model, rect, <<>>, 0) ELSE Result(<<>>, "")
       IN  hot_map' = d.hot_map /\ raised' = d.raised
    /\ NoSlotChange
    /\ call' = [op |-> "paintEvent"]
    /\ UNCHANGED <<widgetConfig, model, ret>>

Next ==
    \/ \E n \in NodeIds \cup {None} : CallSetActiveNode(n)
    \/ \E n \in NodeIds \cup {None} : CallSetSelectedNode(n)
    \/ \E n \in NodeIds \cup {None} : CallSetHighlightedNode(n)
    \/ \E p \in Positions : mouseMoveEvent(p)
    \/ \E p \in Positions : mouseReleaseEvent(p)
    \/ \E p \in Positions : mouseDoubleClickEvent(p)
    \/ \E k \in Keys : keyReleaseEvent(k)
    \/ \E m \in Roots \cup {None}, a \in Adapters \cup {""} : SetModel(m, a)
    \/ \E r \in PaintRects : paintEvent(r)

Spec == InitWidget /\ [][Next]_vars

-----------------------------------------------------------------------------
(* Calls of the module's functions on their own: the arguments are drawn in  *)
(* the initial state (call), the action applies the function (ret).          *)

MaxDim == 3        \* rectangle sides run over 0, 1/2, 1, ..., MaxDim
MaxDen == 4        \* fractions n/d with 0 <= n <= d <= MaxDen
MaxNodes == 4      \* the longest list given to split_by_value
MaxValue == 3      \* node values run over 0..MaxValue

\* a widget as constructed by QSquareMap() with no model, given the heap
Constructed(heap, adp, pad, mar, style) ==
    /\ nodes = heap
    /\ model = None
    /\ adapter = adp
    /\ padding = pad
    /\ margin = mar
    /\ square_style = style
    /\ max_depth = <<>>
    /\ activeNode = None
    /\ selectedNode = None
    /\ highlightedNode = None
    /\ hot_map = <<>>
    /\ signals = <<>>
    /\ raised = ""
    /\ ret = <<>>

Returns(op, result) ==
    /\ call.op = op
    /\ ret = <<>>
    /\ ret' = <<result>>
    /\ UNCHANGED <<widgetConfig, model, activeNode, selectedNode, highlightedNode,
                   hot_map, signals, raised, call>>

Fractions == {Q(n, d) : n \in 0..MaxDen, d \in 1..MaxDen} \ {q \in {Q(n, d) : n \in 0..MaxDen, d \in 1..MaxDen} : QLt(I(1), q)}
Sides == {Q(k, 2) : k \in 0..(2 * MaxDim)}
Origins == {I(0), Q(3, 2)}
SplitRects == {Rect(x, y, w, h) : x \in Origins, y \in {I(0)}, w \in Sides, h \in Sides}

InitSplitBox ==
    /\ Constructed(Heap, "DefaultAdapter", 3, 5, FALSE)
    /\ \E f \in Fractions, r \in SplitRects :
          call = [op |-> "split_box", fraction |-> f, rect |-> r]

CallSplitBox == Returns("split_box", split_box(call.fraction, call.rect))

SpecSplitBox == InitSplitBox /\ [][CallSplitBox]_vars

\* the ascending (value, node) lists of length n with values in lo..MaxValue,
\* the nodes numbered from first on
RECURSIVE AscendingPairs(_, _, _)
AscendingPairs(n, lo, first) ==
    IF n = 0 THEN {<<>>}
    ELSE UNION {{<<<<I(v), first>>>> \o rest : rest \in AscendingPairs(n - 1, v, first + 1)}
                : v \in lo..MaxValue}

RECURSIVE SumPairs(_)
SumPairs(nds) == IF nds = <<>> THEN I(0) ELSE QAdd(nds[1][1], SumPairs(Tail(nds)))

InitSplitByValue ==
    /\ Constructed(Heap, "DefaultAdapter", 3, 5, FALSE)
    /\ \E n \in 1..MaxNodes : \E nds \in AscendingPairs(n, 0, 1) :
          call = [op |-> "split_by_value", total |-> SumPairs(nds), nodes |-> nds]

CallSplitByValue == Returns("split_by_value", split_by_value(call.total, call.nodes))

SpecSplitByValue == InitSplitByValue /\ [][CallSplitByValue]_vars

AdapterClasses == {"DefaultAdapter", "OverallAdapter"}

\* the value lists of length n over 0..MaxValue
RECURSIVE ValueLists(_)
ValueLists(n) ==
    IF n = 0 THEN {<<>>}
    ELSE {<<v>> \o rest : v \in 0..MaxValue, rest \in ValueLists(n - 1)}

\* node 1 with value v, its children 2, 3, ... leaves with the values cvs
FamilyHeap(v, cvs) ==
    [i \in 1..(1 + Len(cvs)) |->
        IF i = 1 THEN [value |-> v, children |-> [j \in 1..Len(cvs) |-> j + 1]]
        ELSE [value |-> cvs[i - 1], children |-> <<>>]]

InitEmpty ==
    \E v \in 0..MaxValue, n \in 0..2, a \in AdapterClasses :
        \E cvs \in ValueLists(n) :
            /\ Constructed(FamilyHeap(v, cvs), a, 3, 5, FALSE)
            /\ call = [op |-> "empty", node |-> 1]

CallEmpty == Returns("empty", empty(call.node))

SpecEmpty == InitEmpty /\ [][CallEmpty]_vars

MaxChildren == 6   \* the most siblings given to LayoutChildren

\* the non-increasing value lists of length n with values in 0..hi
RECURSIVE DescendingLists(_, _)
DescendingLists(n, hi) ==
    IF n = 0 THEN {<<>>}
    ELSE UNION {{<<v>> \o rest : rest \in DescendingLists(n - 1, v)} : v \in 0..hi}

Reverse(s) == [i \in 1..Len(s) |-> s[Len(s) + 1 - i]]

RECURSIVE SumList(_)
SumList(vs) == IF vs = <<>> THEN 0 ELSE Head(vs) + SumList(Tail(vs))

\* the sibling value lists laid out: in descending and in ascending order of
\* value, with a total above zero
SiblingValues ==
    LET desc == UNION {DescendingLists(n, MaxValue) : n \in 1..MaxChildren}
    IN  {vs \in desc \cup {Reverse(d) : d \in desc} : SumList(vs) > 0}

\* node 1 with the children 2, 3, ... of values vs; with nested, the first
\* child has two children of its own
LayoutHeap(vs, nested) ==
    LET n == Len(vs)
    IN  [i \in 1..(n + 3) |->
           IF i = 1 THEN [value |-> SumList(vs), children |-> [j \in 1..n |-> j + 1]]
           ELSE IF i = 2 /\ nested THEN [value |-> vs[1], children |-> <<n + 2, n + 3>>]
           ELSE IF i <= n + 1 THEN [value |-> vs[i - 1], children |-> <<>>]
           ELSE [value |-> i - n - 1, children |-> <<>>]]

LayoutRects ==
    {Rect(I(0), I(0), I(8 * MaxDim), I(6 * MaxDim)),
     Rect(I(2), I(1), I(4 * MaxDim), I(8 * MaxDim))}

\* three sibling leaves of values 10, 30 and 60 in a 100 x 100 rectangle
ScenarioValues == <<10, 30, 60>>
ScenarioRect == Rect(I(0), I(0), I(100), I(100))

InitLayout ==
    \/ \E vs \in SiblingValues, nested \in BOOLEAN, r \in LayoutRects,
          pad \in {0, 1}, mar \in {0, 1}, style \in BOOLEAN :
           /\ Constructed(LayoutHeap(vs, nested), "DefaultAdapter", pad, mar, style)
           /\ call = [op |-> "LayoutChildren", children |-> [j \in 1..Len(vs) |-> j + 1],
                      parent |-> 1, rect |-> r, depth |-> 1]
    \/ /\ Constructed(LayoutHeap(ScenarioValues, FALSE), "DefaultAdapter", 3, 5, FALSE)
       /\ call = [op |-> "LayoutChildren",
                  children |-> [j \in 1..Len(ScenarioValues) |-> j + 1],
                  parent |-> 1, rect |-> ScenarioRect, depth |-> 1]

CallLayoutChildren ==
    Returns("LayoutChildren",
            LayoutChildren(call.children, call.parent, call.rect, <<>>, call.depth, <<>>))

SpecLayout == InitLayout /\ [][CallLayoutChildren]_vars

\* The navigator on the hot map of a painted widget: a tree of up to
\* MaxNodes - 1 siblings of value 0, 1 or 2 under the root, painted into a
\* 12 x 12 rectangle.
NavValues ==
    {vs \in SiblingValues : Len(vs) < MaxNodes /\ \A i \in 1..Len(vs) : vs[i] <= 2}
NavRect == Rect(I(0), I(0), I(12), I(12))
NavPositions == {<<I(x), I(y)>> : x \in {0, 1, 6, 8, 13}, y \in {1, 6, 8}}

InitNavigator ==
    \E vs \in NavValues, nested \in BOOLEAN, pad \in {0, 1} :
        /\ nodes = LayoutHeap(vs, nested)
        /\ model = 1
        /\ adapter = "DefaultAdapter"
        /\ padding = pad
        /\ margin = 0
        /\ square_style = FALSE
        /\ max_depth = <<>>
        /\ activeNode = None
        /\ selectedNode = None
        /\ highlightedNode = None
        /\ hot_map = <<>>
        /\ signals = <<>>
        /\ raised = ""
        /\ call = [op |-> "__init__"]
        /\ ret = <<>>

CallFindNode(target) ==
    /\ call' = [op |-> "findNode", target |-> target]
    /\ ret' = <<findNode(hot_map, target, None)>>
    /\ UNCHANGED <<widgetConfig, model, activeNode, selectedNode, highlightedNode,
                   hot_map, signals, raised>>

CallFindNodeAtPosition(position, parent) ==
    /\ call' = [op |-> "findNodeAtPosition", position |-> position, parent |-> parent]
    /\ ret' = <<findNodeAtPosition(hot_map, position, parent)>>
    /\ UNCHANGED <<widgetConfig, model, activeNode, selectedNode, highlightedNode,
                   hot_map, signals, raised>>

NextNavigator ==
    \/ paintEvent(NavRect)
    \/ \E t \in (DOMAIN nodes) \cup {None} : CallFindNode(t)
    \/ \E pos \in NavPositions, par \in {None, 1} : CallFindNodeAtPosition(pos, par)

SpecNavigator == InitNavigator /\ [][NextNavigator]_vars

MaxDepth == 2      \* max_depth is None or one of 0..MaxDepth

\* node 1 of value v with the children 2, 3, ... of values vs; the first
\* child has two children of its own, and the first of these has one child
DrawHeap(v, vs) ==
    LET n == Len(vs)
    IN  [i \in 1..(n + 4) |->
           IF i = 1 THEN [value |-> v, children |-> [j \in 1..n |-> j + 1]]
           ELSE IF i = 2 THEN [value |-> vs[1], children |-> <<n + 2, n + 3>>]
           ELSE IF i <= n + 1 THEN [value |-> vs[i - 1], children |-> <<>>]
           ELSE IF i = n + 2 THEN [value |-> 2, children |-> <<n + 4>>]
           ELSE [value |-> 1, children |-> <<>>]]

DrawRects == {Rect(I(0), I(0), I(24), I(24)), Rect(I(2), I(1), I(24), I(6))}

\* a widget with a model and max_depth set before the first paint
InitPaint ==
    \E n \in 1..2, extra \in {0, 2}, a \in AdapterClasses, pad \in {0, 1},
       md \in {<<>>} \cup {<<d>> : d \in 0..MaxDepth} :
        \E vs \in ValueLists(n) :
            /\ nodes = DrawHeap(SumList(vs) + extra, vs)
            /\ model = 1
            /\ adapter = a
            /\ padding = pad
            /\ margin = 0
            /\ square_style = FALSE
            /\ max_depth = md
            /\ activeNode = None
            /\ selectedNode = None
            /\ highlightedNode = None
            /\ hot_map = <<>>
            /\ signals = <<>>
            /\ raised = ""
            /\ call = [op |-> "__init__"]
            /\ ret = <<>>

NextPaint == \E r \in DrawRects : paintEvent(r)

SpecPaint == InitPaint /\ [][NextPaint]_vars

-----------------------------------------------------------------------------
(* Geometry used to state the properties.                                   *)

Right(r) == QAdd(r.x, r.w)
Bottom(r) == QAdd(r.y, r.h)
Area(r) == QMul(r.w, r.h)

\* a lies within b, borders included
Inside(a, b) ==
    /\ QLe(b.x, a.x) /\ QLe(Right(a), Right(b))
    /\ QLe(b.y, a.y) /\ QLe(Bottom(a), Bottom(b))

\* a and b share more than a border
Overlap(a, b) ==
    /\ QLt(a.x, Right(b)) /\ QLt(b.x, Right(a))
    /\ QLt(a.y, Bottom(b)) /\ QLt(b.y, Bottom(a))

-----------------------------------------------------------------------------
(* The hot map as a tree: its entries, its sibling lists, its nodes.         *)

Range(s) == {s[i] : i \in 1..Len(s)}

RECURSIVE Entries(_)
Entries(hm) == UNION {{hm[i]} \cup Entries(hm[i].children) : i \in 1..Len(hm)}

RECURSIVE SiblingLists(_)
SiblingLists(hm) == {hm} \cup UNION {SiblingLists(hm[i].children) : i \in 1..Len(hm)}

\* the nodes of the entries, in depth-first order
RECURSIVE NodeSeq(_)
NodeSeq(hm) ==
    IF hm = <<>> THEN <<>>
    ELSE <<hm[1].node>> \o NodeSeq(hm[1].children) \o NodeSeq(Tail(hm))

NodesOf(hm) == Range(NodeSeq(hm))

NoNodeTwice(hm) == Cardinality(NodesOf(hm)) = Len(NodeSeq(hm))

SiblingsDisjoint(hm) ==
    \A L \in SiblingLists(hm) : \A i, j \in 1..Len(L) :
        i < j => ~Overlap(L[i].rect, L[j].rect)

ChildrenInsideParents(hm) ==
    \A e \in Entries(hm) : \A c \in Range(e.children) : Inside(c.rect, e.rect)

\* the index paths <<i1, ..., ik>> of the entries: entry i1 of the top-level
\* list, entry i2 of its children, ...
RECURSIVE Paths(_)
Paths(hm) ==
    UNION {{<<i>>} \cup {<<i>> \o q : q \in Paths(hm[i].children)} : i \in 1..Len(hm)}

\* the sibling list that the path's last index points into
RECURSIVE ListAt(_, _)
ListAt(hm, path) ==
    IF Len(path) = 1 THEN hm ELSE ListAt(hm[path[1]].children, Tail(path))

EntryAt(hm, path) == ListAt(hm, path)[path[Len(path)]]

\* the node of the entry that encloses the path's entry (None at the top)
ParentAt(hm, path) ==
    IF Len(path) = 1 THEN None
    ELSE EntryAt(hm, SubSeq(path, 1, Len(path) - 1)).node

PathsTo(hm, node) == {q \in Paths(hm) : EntryAt(hm, q).node = node}

\* the subtree of the heap under a node (of None: nothing)
RECURSIVE Subtree(_)
Subtree(node) ==
    IF node = None THEN {}
    ELSE {node} \cup UNION {Subtree(nodes[node].children[i]) :
                              i \in 1..Len(nodes[node].children)}

\* the last entry's last entry's ... node
RECURSIVE LastLeaf(_)
LastLeaf(hm) ==
    LET e == hm[Len(hm)]
    IN  IF e.children = <<>> THEN e.node ELSE LastLeaf(e.children)

-----------------------------------------------------------------------------
\* a step that is a call of the setter op: what it emits and what it sets
SetterStep(op, name, old, new, others) ==
    (call'.op = op) =>
        LET n == call'.node
        IN  /\ signals' = IF n # None /\ n # old THEN <<Signal(name, n)>> ELSE <<>>
            /\ new = n
            /\ others

(* C1: for setActiveNode, setSelectedNode and setHighlightedNode (propagate *)
(* at its default), in any sequence of calls: the matching notification is   *)
(* emitted in a call exactly when the node passed is not None and differs    *)
(* from the value the slot held just before the call; a call with None on a  *)
(* non-empty slot sets the slot to None and emits nothing; a call with the   *)
(* slot's node changes nothing and emits nothing; and no call changes        *)
(* either of the other two slots.                                            *)
C1_SettersNotifyOnChange ==
    [][/\ SetterStep("setActiveNode", "activateNode", activeNode, activeNode',
                     UNCHANGED <<selectedNode, highlightedNode>>)
       /\ SetterStep("setSelectedNode", "selectNode", selectedNode, selectedNode',
                     UNCHANGED <<activeNode, highlightedNode>>)
       /\ SetterStep("setHighlightedNode", "highlightNode", highlightedNode,
                     highlightedNode', UNCHANGED <<activeNode, selectedNode>>)]_vars

\* setSelectedNode has just set and notified a node, the other two slots set
C1_Witness ==
    /\ call.op = "setSelectedNode"
    /\ call.node # None
    /\ selectedNode = call.node
    /\ signals = <<Signal("selectNode", call.node)>>
    /\ activeNode # None /\ highlightedNode # None

\* setHighlightedNode(None) has just cleared the slot, silently
C1_WitnessCleared ==
    /\ call.op = "setHighlightedNode"
    /\ call.node = None
    /\ highlightedNode = None /\ signals = <<>>
    /\ selectedNode # None

-----------------------------------------------------------------------------
(* C2: with a node selected and a non-empty hot map, releasing Home selects *)
(* the first top-level entry's node and releasing End selects the node       *)
(* reached by descending into the last entry's children down to an entry     *)
(* without children, whatever node was selected before.                      *)
C2_HomeAndEndSelect ==
    [][(call'.op = "keyReleaseEvent" /\ selectedNode # None /\ hot_map # <<>>) =>
          /\ call'.key = "Home" => selectedNode' = hot_map[1].node
          /\ call'.key = "End" => selectedNode' = LastLeaf(hot_map)]_vars

\* the part of C2 about Home, which the code does as stated
C2_HomeSelectsFirst ==
    [][(call'.op = "keyReleaseEvent" /\ selectedNode # None /\ hot_map # <<>>
        /\ call'.key = "Home") => selectedNode' = hot_map[1].node]_vars

-----------------------------------------------------------------------------
(* C3: with the selected node in the hot map at index i of the sibling list *)
(* L: Down selects L[min(i+1, len(L))], Up selects L[max(i-1, 1)] (indices   *)
(* from 1; clamped, no wraparound, no notification when the selection stays);*)
(* Right selects the first child entry's node, or stays (no notification)    *)
(* when the entry has no children; Left selects the node of the enclosing    *)
(* entry and does nothing at the top level.  After any such key the selected *)
(* node is still a node of the hot map.                                      *)
C3_ArrowKeysNavigate ==
    [][(call'.op = "keyReleaseEvent" /\ selectedNode # None
        /\ PathsTo(hot_map, selectedNode) # {}) =>
          \A q \in PathsTo(hot_map, selectedNode) :
             LET L == ListAt(hot_map, q)
                 i == q[Len(q)]
                 key == call'.key
                 expected ==
                     CASE key = "Down" -> L[IF i + 1 > Len(L) THEN Len(L) ELSE i + 1].node
                       [] key = "Up" -> L[IF i - 1 < 1 THEN 1 ELSE i - 1].node
                       [] key = "Right" -> IF L[i].children # <<>>
                                           THEN L[i].children[1].node
                                           ELSE selectedNode
                       [] key = "Left" -> IF Len(q) > 1 THEN ParentAt(hot_map, q)
                                          ELSE selectedNode
                       [] OTHER -> selectedNode'
             IN  key \in {"Down", "Up", "Right", "Left"} =>
                   /\ selectedNode' = expected
                   /\ signals' = IF expected = selectedNode THEN <<>>
                                 ELSE <<Signal("selectNode", expected)>>
                   /\ selectedNode' \in NodesOf(hot_map)
                   /\ hot_map' = hot_map]_vars

\* Down has just moved the selection to the next sibling
C3_Witness ==
    /\ call.op = "keyReleaseEvent" /\ call.key = "Down"
    /\ signals = <<Signal("selectNode", selectedNode)>>
    /\ \E q \in PathsTo(hot_map, selectedNode) : q[Len(q)] > 1

\* Left has just moved the selection to the enclosing entry's node
C3_WitnessLeft ==
    /\ call.op = "keyReleaseEvent" /\ call.key = "Left"
    /\ signals = <<Signal("selectNode", selectedNode)>>
    /\ \E q \in PathsTo(hot_map, selectedNode) : EntryAt(hot_map, q).children # <<>>

-----------------------------------------------------------------------------
(* C4: the interaction state is cleared or replaced on model change: after  *)
(* SetModel installs a different model, none of the active, selected and     *)
(* highlighted slots still refers to a node of the previous model.           *)
C4_SlotsClearedOnModelChange ==
    [][(call'.op = "SetModel" /\ model' # model /\ model' # None) =>
          {activeNode', selectedNode', highlightedNode'} \cap Subtree(model) = {}]_vars

\* C4 as the code has it: SetModel installs the model and leaves the three
\* slots and the hot map as they were, notifying nothing, so a slot may go on
\* referring to a node of the previous model; the following paint rebuilds
\* the hot map from the new model and leaves the slots alone too.
C4_SetModelKeepsSlots ==
    [][/\ (call'.op = "SetModel") =>
             /\ UNCHANGED <<activeNode, selectedNode, highlightedNode, hot_map>>
             /\ signals' = <<>>
       /\ (call'.op = "paintEvent") =>
             /\ UNCHANGED <<activeNode, selectedNode, highlightedNode, model>>
             /\ NodesOf(hot_map') \subseteq Subtree(model)]_vars

\* a different model installed and painted with the selection still on a node
\* of the previous model
C4_Witness ==
    /\ call.op = "paintEvent"
    /\ model # None /\ hot_map # <<>>
    /\ selectedNode # None
    /\ selectedNode \notin Subtree(model)
    /\ selectedNode \notin NodesOf(hot_map)

-----------------------------------------------------------------------------
(* C5: split_box(f, R), for a rectangle R of width w and height h and a     *)
(* fraction f in [0,1], splits along the width when w >= h and along the     *)
(* height otherwise; it returns (None, None) exactly when f times that       *)
(* dimension is zero; otherwise head starts at R's origin with length        *)
(* f*dim, tail starts where head ends with length dim - f*dim, both keep     *)
(* R's extent on the other axis, they do not overlap, both lie inside R,     *)
(* and their areas sum to R's area.                                          *)
C5_SplitBoxPartitions ==
    (call.op = "split_box" /\ ret # <<>>) =>
        LET f == call.fraction
            R == call.rect
            out == ret[1]
            byWidth == QLe(R.h, R.w)
            dim == IF byWidth THEN R.w ELSE R.h
            len == QMul(f, dim)
        IN  /\ (out.head = <<>>) <=> (len = I(0))
            /\ (out.tail = <<>>) <=> (len = I(0))
            /\ len # I(0) =>
                 LET hd == out.head[1]
                     tl == out.tail[1]
                 IN  /\ IF byWidth
                        THEN /\ hd = Rect(R.x, R.y, len, R.h)
                             /\ tl = Rect(QAdd(R.x, len), R.y, QSub(dim, len), R.h)
                        ELSE /\ hd = Rect(R.x, R.y, R.w, len)
                             /\ tl = Rect(R.x, QAdd(R.y, len), R.w, QSub(dim, len))
                     /\ ~Overlap(hd, tl)
                     /\ Inside(hd, R) /\ Inside(tl, R)
                     /\ QAdd(Area(hd), Area(tl)) = Area(R)

\* a square rectangle (the tie) split into a head and a tail of positive area
C5_Witness ==
    /\ call.op = "split_box" /\ ret # <<>>
    /\ call.rect.w = call.rect.h
    /\ ret[1].head # <<>>
    /\ QLt(I(0), Area(ret[1].head[1])) /\ QLt(I(0), Area(ret[1].tail[1]))

-----------------------------------------------------------------------------
(* C6: split_by_value(total, nodes), for a non-empty list of (value, node)  *)
(* pairs ascending by non-negative value and total the sum of the values:    *)
(* head is non-empty, head is a suffix of the input and tail the prefix      *)
(* before it, head_sum and tail_sum are the sums of their values and add up  *)
(* to total, and when total > 0 head is the shortest suffix whose sum        *)
(* reaches total / 2.                                                        *)
C6_SplitByValuePartitions ==
    (call.op = "split_by_value" /\ ret # <<>>) =>
        LET nds == call.nodes
            total == call.total
            out == ret[1]
            n == Len(nds)
            k == Len(out.head)
            Suffix(j) == SubSeq(nds, n - j + 1, n)
        IN  /\ k \in 1..n
            /\ out.head = Suffix(k)
            /\ out.tail = SubSeq(nds, 1, n - k)
            /\ out.head_sum = SumPairs(out.head)
            /\ out.tail_sum = SumPairs(out.tail)
            /\ QAdd(out.head_sum, out.tail_sum) = total
            /\ QLt(I(0), total) =>
                 /\ QLe(QDiv(total, I(2)), SumPairs(Suffix(k)))
                 /\ \A j \in 1..(k - 1) : QLt(SumPairs(Suffix(j)), QDiv(total, I(2)))

\* a positive total split into a head of two nodes or more and a non-empty tail
C6_Witness ==
    /\ call.op = "split_by_value" /\ ret # <<>>
    /\ QLt(I(0), call.total)
    /\ Len(ret[1].head) >= 2
    /\ ret[1].tail # <<>>

-----------------------------------------------------------------------------
(* C10: the adapter's empty(node) is never negative: for every node and     *)
(* every overall(node), also under an adapter whose overall(node) is less    *)
(* than the sum of the children's values, the result is in [0,1]; it is 0    *)
(* when overall(node) is 0 and 0 when overall(node) < children_sum.          *)
C10_EmptyIsClamped ==
    (call.op = "empty" /\ ret # <<>>) =>
        LET ov == overall(call.node)
            cs == children_sum(children(call.node), call.node)
        IN  /\ QLe(I(0), ret[1]) /\ QLe(ret[1], I(1))
            /\ ov = I(0) => ret[1] = I(0)
            /\ QLt(ov, cs) => ret[1] = I(0)

-----------------------------------------------------------------------------
(* C7: for a non-empty list of children with total value > 0, any rectangle, *)
(* padding >= 0 and margin >= 0, in the linear and in the square-style mode, *)
(* LayoutChildren produces a hot map in which the rectangles of one sibling  *)
(* list are pairwise non-overlapping (they share at most a border), every    *)
(* rectangle at every depth lies in the input rectangle, every child entry's *)
(* rectangle lies in its parent entry's rectangle, and no node appears in    *)
(* more than one entry.                                                      *)
C7_LayoutIsATiling ==
    (call.op = "LayoutChildren" /\ ret # <<>>) =>
        LET hm == ret[1].hot_map
        IN  /\ ret[1].raised = ""
            /\ SiblingsDisjoint(hm)
            /\ \A e \in Entries(hm) : Inside(e.rect, call.rect)
            /\ ChildrenInsideParents(hm)
            /\ NoNodeTwice(hm)

\* six siblings or more laid out in the square style with padding, one of
\* them with children of its own
C7_Witness ==
    /\ call.op = "LayoutChildren" /\ ret # <<>>
    /\ square_style /\ padding > 0
    /\ Len(ret[1].hot_map) > 5
    /\ \E e \in Range(ret[1].hot_map) : Len(e.children) = 2

\* fewer than six siblings laid out one after the other, and the layout cut
\* short because the remaining rectangle is too small
C7_WitnessLinear ==
    /\ call.op = "LayoutChildren" /\ ret # <<>>
    /\ ~square_style
    /\ Len(ret[1].hot_map) \in 2..(Len(call.children) - 1)
    /\ \A i \in 1..Len(call.children) : nodes[call.children[i]].value > 0

-----------------------------------------------------------------------------
(* The chains of entries under a position.                                  *)

\* every entry along the path holds the position
AllContain(hm, q, p) ==
    \A k \in 1..Len(q) : contains(EntryAt(hm, SubSeq(q, 1, k)).rect, p)

\* ... and each is the first of its sibling list to hold it
AllFirstToContain(hm, q, p) ==
    \A k \in 1..Len(q) :
        LET L == ListAt(hm, SubSeq(q, 1, k))
        IN  /\ contains(L[q[k]].rect, p)
            /\ \A j \in 1..(q[k] - 1) : ~contains(L[j].rect, p)

NoChildContains(hm, q, p) ==
    \A c \in Range(EntryAt(hm, q).children) : ~contains(c.rect, p)

\* no two entries of one sibling list hold the position
OnNoSharedBorder(hm, p) ==
    \A L \in SiblingLists(hm) : \A i, j \in 1..Len(L) :
        (contains(L[i].rect, p) /\ contains(L[j].rect, p)) => i = j

\* the result is the node of the deepest entry of a chain of rectangles that
\* all hold p, and of every entry that holds p while none of its children does
DeepestEntryReturned(hm, p, par, r) ==
    LET hits == {q \in Paths(hm) : AllContain(hm, q, p)}
    IN  /\ hits = {} => r = par
        /\ hits # {} =>
              \E q \in hits : /\ r = EntryAt(hm, q).node
                              /\ \A q2 \in hits : Len(q2) <= Len(q)
        /\ \A q \in hits : NoChildContains(hm, q, p) => r = EntryAt(hm, q).node

\* a node returned has a rectangle that holds p, unless it is the parent given
ReturnedHoldsPosition(hm, p, par, r) ==
    r # par => \E q \in Paths(hm) : EntryAt(hm, q).node = r /\ contains(EntryAt(hm, q).rect, p)

(* C8: findNodeAtPosition(hot_map, p, parent), over a hot map whose sibling *)
(* rectangles do not overlap and whose child rectangles lie inside their     *)
(* parent's, returns the node of the deepest entry on a chain of rectangles  *)
(* that all contain p; the node of an entry that contains p while none of    *)
(* its children does; the parent argument when no top-level entry contains   *)
(* p; and never a node whose rectangle does not contain p, unless that node  *)
(* is the parent given.                                                      *)
C8_DeepestEntryAtPosition ==
    (/\ call.op = "findNodeAtPosition" /\ ret # <<>>
     /\ SiblingsDisjoint(hot_map) /\ ChildrenInsideParents(hot_map)) =>
        /\ DeepestEntryReturned(hot_map, call.position, call.parent, ret[1])
        /\ ReturnedHoldsPosition(hot_map, call.position, call.parent, ret[1])

\* C8 as the code has it: the result is the node at the end of the chain that
\* takes, at every level, the first entry in list order whose rectangle holds
\* p, and that ends at an entry none of whose children holds p; it is the
\* parent argument when no top-level entry holds p; it is the deepest entry
\* holding p whenever p lies in at most one rectangle of every sibling list
\* (on a border shared by two siblings the earlier sibling wins); and it is
\* never a node whose rectangle does not hold p, unless the parent given.
C8_FirstEntryAtPosition ==
    (/\ call.op = "findNodeAtPosition" /\ ret # <<>>
     /\ SiblingsDisjoint(hot_map) /\ ChildrenInsideParents(hot_map)) =>
        LET p == call.position
            par == call.parent
            r == ret[1]
            chains == {q \in Paths(hot_map) :
                         AllFirstToContain(hot_map, q, p) /\ NoChildContains(hot_map, q, p)}
        IN  /\ (\A i \in 1..Len(hot_map) : ~contains(hot_map[i].rect, p)) => r = par
            /\ (\E i \in 1..Len(hot_map) : contains(hot_map[i].rect, p)) =>
                  /\ Cardinality(chains) = 1
                  /\ \A q \in chains : r = EntryAt(hot_map, q).node
            /\ OnNoSharedBorder(hot_map, p) => DeepestEntryReturned(hot_map, p, par, r)
            /\ ReturnedHoldsPosition(hot_map, p, par, r)

\* a position on the border of two siblings, the later one with a child that
\* holds the position too, and the search has returned the earlier sibling
C8_Witness ==
    /\ call.op = "findNodeAtPosition" /\ ret # <<>>
    /\ SiblingsDisjoint(hot_map) /\ ChildrenInsideParents(hot_map)
    /\ ~OnNoSharedBorder(hot_map, call.position)
    /\ \E q \in Paths(hot_map) : /\ AllContain(hot_map, q, call.position)
                                 /\ Len(q) = 3
    /\ \E q \in Paths(hot_map) : Len(q) = 2 /\ EntryAt(hot_map, q).node = ret[1]

\* a position in one chain only, three entries deep, and its node returned
C8_WitnessDeepest ==
    /\ call.op = "findNodeAtPosition" /\ ret # <<>>
    /\ OnNoSharedBorder(hot_map, call.position)
    /\ \E q \in Paths(hot_map) : Len(q) = 3 /\ EntryAt(hot_map, q).node = ret[1]

-----------------------------------------------------------------------------
\* r is the place of target in hm, or None when target has no entry
FindNodeLocates(hm, target, r) ==
    IF PathsTo(hm, target) = {} THEN r = <<>>
    ELSE /\ r # <<>>
         /\ \E q \in PathsTo(hm, target) :
               /\ r[1].list = ListAt(hm, q)
               /\ r[1].index = q[Len(q)]
               /\ r[1].list[r[1].index].node = target
               /\ r[1].parent = ParentAt(hm, q)

(* C9: findNode(hot_map, target): when target is the node of an entry, the  *)
(* result is (parent, L, i) with L[i]'s node the target, L the sibling list  *)
(* holding that entry and parent the node of the entry whose children L are  *)
(* (None for the top-level list); when target is the node of no entry the    *)
(* result is None.  The hot map is the same after the call.                  *)
C9_FindNodeLocates ==
    /\ [](call.op = "findNode" => FindNodeLocates(hot_map, call.target, ret[1]))
    /\ [][call'.op = "findNode" => hot_map' = hot_map]_vars

\* a node two levels below the root found, with its parent and its index
C9_Witness ==
    /\ call.op = "findNode" /\ ret # <<>> /\ ret[1] # <<>>
    /\ ret[1][1].parent \notin {None, 1}
    /\ ret[1][1].index = 2
    /\ ret[1][1].list # hot_map

\* a node of the heap that has no entry, and the search has returned None
C9_WitnessAbsent ==
    /\ call.op = "findNode" /\ ret = <<<<>>>>
    /\ call.target # None
    /\ hot_map # <<>>

-----------------------------------------------------------------------------
\* every value of the (value, node) list is zero
AllZero(nds) == \A i \in 1..Len(nds) : nds[i][1] = I(0)

\* the divider split_by_value's loop ends with: minus the number of nodes taken
DividerOf(total, nds) == SplitLoop(total, nds, Len(nds), I(0), 0).divider

(* C14: split_by_value, for a non-empty list in which every node's value is  *)
(* zero: the loop body runs at least once and the returned head contains     *)
(* exactly the last node of the list, with all the other nodes in the tail.  *)
C14_AllZeroHeadIsLastNode ==
    (call.op = "split_by_value" /\ ret # <<>> /\ AllZero(call.nodes)) =>
        LET nds == call.nodes
            n == Len(nds)
        IN  /\ DividerOf(call.total, nds) < 0
            /\ ret[1].head = <<nds[n]>>
            /\ ret[1].tail = SubSeq(nds, 1, n - 1)

\* C14 as the code has it: with every value zero and total their sum, the
\* test head_sum < total / 2 fails before the first node is taken, the
\* divider stays 0, and head is the whole list and tail is empty, both with
\* sum 0 (so head is the last node alone only for a list of one node).
C14_AllZeroHeadIsWholeList ==
    (call.op = "split_by_value" /\ ret # <<>> /\ AllZero(call.nodes)) =>
        /\ DividerOf(call.total, call.nodes) = 0
        /\ ret[1].head = call.nodes
        /\ ret[1].tail = <<>>
        /\ ret[1].head_sum = I(0)
        /\ ret[1].tail_sum = I(0)

\* split_by_value has returned for a list of two or more nodes, all of value zero
C14_Witness ==
    /\ call.op = "split_by_value" /\ ret # <<>>
    /\ AllZero(call.nodes)
    /\ Len(call.nodes) >= 2

-----------------------------------------------------------------------------
\* the depth is below the configured maximum depth, or none is configured
BelowMaxDepth(depth) == max_depth = <<>> \/ depth < max_depth[1]

\* the padded rectangle of rect with its top moved down by e times the padded
\* height and its height reduced to (1 - e) times the padded height
BelowLabel(rect, e) ==
    LET pad == I(padding)
        r == adjusted(rect, pad, pad, QNeg(pad), QNeg(pad))
    IN  Rect(r.x, QAdd(r.y, QMul(r.h, e)), r.w, QMul(r.h, QSub(I(1), e)))

(* C12: when DrawBox draws a node below the maximum depth whose adapter      *)
(* reports empty(node) = e > 0, the draw completes without error, the node's *)
(* hot-map entry is appended, and its children are laid out in the padded    *)
(* rectangle with its top moved down by e times the padded height and its    *)
(* height reduced to (1 - e) times the padded height: every child rectangle  *)
(* lies below the top e fraction, and children with a value are laid out when *)
(* that rectangle exceeds twice the padding.                                 *)
C12_EmptySpaceReserved ==
    call.op = "paintEvent" =>
        \A q \in Paths(hot_map) :
            LET e == EntryAt(hot_map, q)
                emp == empty(e.node)
                below == BelowLabel(e.rect, emp)
            IN  (BelowMaxDepth(Len(q) - 1) /\ QLt(I(0), emp)) =>
                    /\ raised = ""
                    /\ \A c \in Range(e.children) : Inside(c.rect, below)
                    /\ ( /\ coord_bigger_than_padding(below, I(padding))
                         /\ Truthy(children_sum(children(e.node), e.node)) )
                       => e.children # <<>>

-----------------------------------------------------------------------------
(* C13: depth cutoff.  When a maximum depth d >= 0 is configured (the root   *)
(* is drawn at depth 0), after any paint the hot map has no entry at a depth *)
(* greater than d (a node skipped by the cutoff has no entry), and an entry  *)
(* at depth exactly d has an empty children list; when no maximum depth is   *)
(* configured, depth alone never suppresses an entry: with no padding, no    *)
(* margin and every value above zero, a paint that ends without error gives  *)
(* every node of the model an entry.                                         *)
C13_DepthCutoff ==
    call.op = "paintEvent" =>
        /\ max_depth # <<>> =>
              \A q \in Paths(hot_map) :
                  /\ Len(q) - 1 <= max_depth[1]
                  /\ Len(q) - 1 = max_depth[1] => EntryAt(hot_map, q).children = <<>>
        /\ ( /\ max_depth = <<>> /\ raised = ""
             /\ padding = 0 /\ margin = 0
             /\ \A i \in DOMAIN nodes : nodes[i].value > 0 )
           => NodesOf(hot_map) = Subtree(model)

\* the cutoff as C13 has it, for a maximum depth of 1 or more
C13_CutoffAboveZero == (max_depth # <<>> /\ max_depth[1] = 0) \/ C13_DepthCutoff

\* a paint under a maximum depth of 1 or more that left nodes out and gave an
\* entry at the maximum depth to a node that has children
C13_WitnessAboveZero ==
    /\ call.op = "paintEvent" /\ raised = ""
    /\ max_depth # <<>> /\ max_depth[1] > 0
    /\ NodesOf(hot_map) # Subtree(model)
    /\ \E q \in Paths(hot_map) :
          /\ Len(q) - 1 = max_depth[1]
          /\ children(EntryAt(hot_map, q).node) # <<>>

-----------------------------------------------------------------------------
\* the entries hm[i], hm[i+1], ... are the heads of the successive splits of
\* rect: hm[i] is the head of split_box with fraction value / rest, where rest
\* is the sum of the values of the siblings not yet placed, and the entries
\* after it split the tail with rest - value
RECURSIVE LinearFrom(_, _, _, _, _)
LinearFrom(hm, i, parent, rect, rest) ==
    IF i > Len(hm) THEN TRUE
    ELSE LET v == value(hm[i].node, parent)
             sb == split_box(QDiv(v, rest), rect)
         IN  /\ Truthy(rest)
             /\ sb.head # <<>>
             /\ hm[i].rect = sb.head[1]
             /\ (i < Len(hm)) =>
                    (sb.tail # <<>> /\ LinearFrom(hm, i + 1, parent, sb.tail[1], QSub(rest, v)))

\* the rectangle left after the entries of hm have been split off rect
RECURSIVE TailAfter(_, _, _, _, _)
TailAfter(hm, i, parent, rect, rest) ==
    IF i > Len(hm) THEN <<rect>>
    ELSE LET v == value(hm[i].node, parent)
             sb == split_box(QDiv(v, rest), rect)
         IN  IF sb.tail = <<>> THEN <<>>
             ELSE TailAfter(hm, i + 1, parent, sb.tail[1], QSub(rest, v))

\* LayoutChildren was called to lay the children out one after the other
LinearCall ==
    /\ call.op = "LayoutChildren" /\ ret # <<>>
    /\ ~square_style \/ Len(call.children) <= 5

(* C11: in the linear branch of LayoutChildren (square_style off, or at most *)
(* 5 siblings), siblings are placed largest value first: the entries of the  *)
(* sibling list are in non-increasing order of value and no sibling left out *)
(* has a larger value than a placed one; each placed node receives the head  *)
(* of split_box with fraction value / (sum of the values of the siblings not *)
(* yet placed) of the rectangle still remaining, and the rest are laid out   *)
(* in the tail with sum total - value, so that a placed node covers          *)
(* value / total of the rectangle; a sibling is left out only when its value *)
(* is zero or the remaining rectangle does not exceed twice padding + margin. *)
(* For the leaf values [10, 30, 60] in a 100 x 100 rectangle the entry for   *)
(* 60 covers 60% of the rectangle (split on the width), the entry for 30     *)
(* covers 75% of the 40% remainder, and the entry for 10 the remaining 25%.  *)
C11_LinearLargestFirst ==
    LinearCall =>
        LET hm == ret[1].hot_map
            chs == call.children
            total == children_sum(chs, call.parent)
            val(n) == value(n, call.parent)
            placed == {hm[i].node : i \in 1..Len(hm)}
            left == Range(chs) \ placed
            rem == TailAfter(hm, 1, call.parent, call.rect, total)
        IN  /\ \A i \in 1..(Len(hm) - 1) : QLe(val(hm[i + 1].node), val(hm[i].node))
            /\ placed \subseteq Range(chs) /\ Len(hm) >= 1
            /\ \A n \in left : \A p \in placed : QLe(val(n), val(p))
            /\ LinearFrom(hm, 1, call.parent, call.rect, total)
            /\ \A i \in 1..Len(hm) :
                  QMul(Area(hm[i].rect), total) = QMul(Area(call.rect), val(hm[i].node))
            /\ left # {} =>
                  \/ \A n \in left : val(n) = I(0)
                  \/ rem = <<>>
                  \/ ~coord_bigger_than_padding(rem[1], I(padding + margin))
            /\ (call.rect = ScenarioRect /\ Len(chs) = 3
                  /\ [i \in 1..3 |-> nodes[chs[i]].value] = ScenarioValues) =>
                  /\ [i \in 1..Len(hm) |-> hm[i].node] = <<chs[3], chs[2], chs[1]>>
                  /\ hm[1].rect = Rect(I(0), I(0), I(60), I(100))
                  /\ hm[2].rect = Rect(I(60), I(0), I(40), I(75))
                  /\ hm[3].rect = Rect(I(60), I(75), I(40), I(25))

\* the leaves of values 10, 30 and 60 have been laid out in the 100 x 100 rectangle
C11_Witness ==
    /\ LinearCall
    /\ call.rect = ScenarioRect
    /\ [i \in 1..Len(call.children) |-> nodes[call.children[i]].value] = ScenarioValues
    /\ Len(ret[1].hot_map) = 3

\* children given in descending order of value, three or more placed, and a
\* child with a value left out for lack of room
C11_WitnessCutShort ==
    /\ LinearCall
    /\ Len(ret[1].hot_map) >= 3
    /\ nodes[call.children[1]].value > nodes[call.children[Len(call.children)]].value
    /\ \E n \in Range(call.children) :
          /\ nodes[n].value > 0
          /\ \A i \in 1..Len(ret[1].hot_map) : ret[1].hot_map[i].node # n

=============================================================================
